---- MODULE Spec2Model ----
(***************************************************************************)
(* Model of src/api.py of data_compare_service: the schema reconciler      *)
(* (get_columns_data), the diff-mode classifier (_get_numeric_text_cols),  *)
(* the aggregate planner (_get_table_metrics_wrapper), the normalizer      *)
(* (get_table_metrics), the diff calculator (_get_all_metrics_diff) and    *)
(* the request handler get_table_diff.                                     *)
(*                                                                         *)
(* Python str values are TLA+ strings; Python float values are IEEE-754    *)
(* binary64 numbers kept as sign, 53-bit mantissa and exponent, with the   *)
(* mantissa held in limbs because the arithmetic needs more than 32 bits.  *)
(***************************************************************************)
EXTENDS Integers, Sequences, FiniteSets, TLC

VARIABLES pc, t1cols, t2cols, columns_data, column_types, m1, m2,
          metrics_diff, response, calls

vars == <<pc, t1cols, t2cols, columns_data, column_types, m1, m2,
          metrics_diff, response, calls>>

(***************************************************************************)
(* str methods used by the code.                                           *)
(***************************************************************************)
CharAt(s, i) == SubSeq(s, i, i)

\* Python's `p in s` for str.
Contains(s, p) ==
    \E i \in 1..(Len(s) - Len(p) + 1) : SubSeq(s, i, i + Len(p) - 1) = p

\* s.endswith(p)
EndsWith(s, p) ==
    /\ Len(p) <= Len(s)
    /\ SubSeq(s, Len(s) - Len(p) + 1, Len(s)) = p

\* s.partition(sep)[0] for a one-character sep: the text before the first
\* sep, or all of s when sep does not occur.
PartitionHead(s, sep) ==
    LET hits == {i \in 1..Len(s) : CharAt(s, i) = sep}
    IN  IF hits = {} THEN s
        ELSE LET first == CHOOSE i \in hits : \A j \in hits : i <= j
             IN  SubSeq(s, 1, first - 1)

\* A split at the first sep instead of the last: the round trip of C10 is
\* sensitive to the side the key is split from.
PartitionFirst(s, sep) ==
    LET hits == {i \in 1..Len(s) : CharAt(s, i) = sep}
    IN  IF hits = {} THEN [head |-> "", sep |-> "", tail |-> s]
        ELSE LET first == CHOOSE i \in hits : \A j \in hits : i <= j
             IN  [head |-> SubSeq(s, 1, first - 1), sep |-> sep,
                  tail |-> SubSeq(s, first + 1, Len(s))]

\* s.rpartition(sep) for a one-character sep: split at the last sep; when sep
\* does not occur the result is ("", "", s).
RPartition(s, sep) ==
    LET hits == {i \in 1..Len(s) : CharAt(s, i) = sep}
    IN  IF hits = {} THEN [head |-> "", sep |-> "", tail |-> s]
        ELSE LET last == CHOOSE i \in hits : \A j \in hits : j <= i
             IN  [head |-> SubSeq(s, 1, last - 1), sep |-> sep,
                  tail |-> SubSeq(s, last + 1, Len(s))]

Upper == "ABCDEFGHIJKLMNOPQRSTUVWXYZ"
Lower == "abcdefghijklmnopqrstuvwxyz"

FoldChar(c) ==
    LET hits == {i \in 1..Len(Upper) : CharAt(Upper, i) = c}
    IN  IF hits = {} THEN c ELSE CharAt(Lower, CHOOSE i \in hits : TRUE)

\* s.casefold() on ASCII text.
RECURSIVE CaseFold(_)
CaseFold(s) ==
    IF Len(s) = 0 THEN "" ELSE FoldChar(CharAt(s, 1)) \o CaseFold(Tail(s))

(***************************************************************************)
(* get_columns_data.  A column mapping is a function from column names to  *)
(* str(meta.type).  The two output lists of one-entry dicts are kept as    *)
(* functions from the column name to the recorded type(s).                 *)
(***************************************************************************)
\* A lookup that finds lower-case names only: the partition of C3 is
\* sensitive to the lookup.
CommonColsLower(c1, c2) ==
    {col \in DOMAIN c1 : col \in DOMAIN c2 /\ CaseFold(col) = col}

\* `table_2_cols[col_name]` inside try/except: a missing name is skipped.
CommonCols(c1, c2) == {col \in DOMAIN c1 : col \in DOMAIN c2}

\* str(cols[col].type).partition("(")[0]
BaseType(type_str) == PartitionHead(type_str, "(")

SameType(c1, c2, col) == BaseType(c1[col]) = BaseType(c2[col])

get_columns_data(c1, c2) ==
    LET common_cols == CommonCols(c1, c2)
        same == {col \in common_cols : SameType(c1, c2, col)}
    IN  [ table_1_uncommon_columns |-> (DOMAIN c1) \ common_cols,
          table_2_uncommon_columns |-> (DOMAIN c2) \ common_cols,
          common_columns |-> common_cols,
          common_columns_same_type |->
              [col \in same |-> BaseType(c1[col])],
          common_columns_different_type |->
              [col \in common_cols \ same |->
                  [table_1 |-> BaseType(c1[col]),
                   table_2 |-> BaseType(c2[col])]] ]

(***************************************************************************)
(* _get_numeric_text_cols: diff-mode classification of the same-type       *)
(* columns.                                                                *)
(***************************************************************************)
\* The rule of get_available_columns (any "precision" is numeric): the
\* classes of C8 are sensitive to the rule.
IsNumericTypeSchemaMode(column_type) ==
    \/ Contains(column_type, "float")
    \/ Contains(column_type, "integer")
    \/ Contains(column_type, "precision")

IsNumericType(column_type) ==
    \/ Contains(column_type, "float")
    \/ Contains(column_type, "integer")
    \/ /\ Contains(column_type, "double precision")
       /\ ~Contains(column_type, "[]")

IsTextType(column_type) ==
    \/ Contains(column_type, "char")
    \/ Contains(column_type, "text")

_get_numeric_text_cols(same_type) ==
    LET numeric == {col \in DOMAIN same_type :
                        IsNumericType(CaseFold(same_type[col]))}
    IN  [ numeric_columns |-> numeric,
          text_columns |-> {col \in (DOMAIN same_type) \ numeric :
                                IsTextType(CaseFold(same_type[col]))} ]

(***************************************************************************)
(* Natural numbers of any size, as little-endian sequences of limbs below  *)
(* LimbBase with no leading zero limb (<<>> is zero).  They carry the      *)
(* 53-bit mantissas of Python floats and the exact intermediate results    *)
(* that float arithmetic rounds.                                           *)
(***************************************************************************)
LimbBits == 15
LimbBase == 2^LimbBits

RECURSIVE BNorm(_)
BNorm(a) ==
    IF Len(a) > 0 /\ a[Len(a)] = 0 THEN BNorm(SubSeq(a, 1, Len(a) - 1)) ELSE a

RECURSIVE BFromInt(_)
BFromInt(n) ==
    IF n = 0 THEN <<>> ELSE <<n % LimbBase>> \o BFromInt(n \div LimbBase)

BRest(a) == IF Len(a) = 0 THEN a ELSE Tail(a)
BLow(a) == IF Len(a) = 0 THEN 0 ELSE a[1]

RECURSIVE BAddC(_, _, _)
BAddC(a, b, c) ==
    IF Len(a) = 0 /\ Len(b) = 0
    THEN IF c = 0 THEN <<>> ELSE <<c>>
    ELSE LET s == BLow(a) + BLow(b) + c
         IN  <<s % LimbBase>> \o BAddC(BRest(a), BRest(b), s \div LimbBase)

BAdd(a, b) == BAddC(a, b, 0)

\* a - b for a >= b.
RECURSIVE BSubB(_, _, _)
BSubB(a, b, borrow) ==
    IF Len(a) = 0 THEN <<>>
    ELSE LET d == a[1] - BLow(b) - borrow
         IN  <<IF d < 0 THEN d + LimbBase ELSE d>>
                 \o BSubB(Tail(a), BRest(b), IF d < 0 THEN 1 ELSE 0)

BSub(a, b) == BNorm(BSubB(a, b, 0))

RECURSIVE BCmpAt(_, _, _)
BCmpAt(a, b, i) ==
    IF i = 0 THEN 0
    ELSE IF a[i] > b[i] THEN 1
    ELSE IF a[i] < b[i] THEN -1
    ELSE BCmpAt(a, b, i - 1)

\* -1, 0 or 1 as a < b, a = b or a > b.
BCmp(a, b) ==
    IF Len(a) > Len(b) THEN 1
    ELSE IF Len(a) < Len(b) THEN -1
    ELSE BCmpAt(a, b, Len(a))

\* a * k + c for 0 <= k, c <= LimbBase.
RECURSIVE BMulSmallC(_, _, _)
BMulSmallC(a, k, c) ==
    IF Len(a) = 0
    THEN IF c = 0 THEN <<>> ELSE <<c>>
    ELSE LET p == a[1] * k + c
         IN  <<p % LimbBase>> \o BMulSmallC(Tail(a), k, p \div LimbBase)

BMulSmall(a, k) == BNorm(BMulSmallC(a, k, 0))

RECURSIVE BMul(_, _)
BMul(a, b) ==
    IF Len(a) = 0 \/ Len(b) = 0 THEN <<>>
    ELSE BAdd(BMulSmall(a, b[1]), BNorm(<<0>> \o BMul(a, Tail(b))))

\* Quotient and remainder of a by 0 < k <= LimbBase, from the top limb down.
RECURSIVE BDivRec(_, _, _, _)
BDivRec(a, k, i, r) ==
    IF i = 0 THEN [q |-> <<>>, r |-> r]
    ELSE LET cur == r * LimbBase + a[i]
             rest == BDivRec(a, k, i - 1, cur % k)
         IN  [q |-> rest.q \o <<cur \div k>>, r |-> rest.r]

BDivSmall(a, k) ==
    LET d == BDivRec(a, k, Len(a), 0) IN [q |-> BNorm(d.q), r |-> d.r]

\* a * 2^n
RECURSIVE BShl(_, _)
BShl(a, n) ==
    IF n = 0 \/ Len(a) = 0 THEN a
    ELSE IF n >= LimbBits THEN BShl(<<0>> \o a, n - LimbBits)
    ELSE BMulSmall(a, 2^n)

\* a \div 2^n
RECURSIVE BShr(_, _)
BShr(a, n) ==
    IF n = 0 \/ Len(a) = 0 THEN a
    ELSE IF n >= LimbBits THEN BShr(Tail(a), n - LimbBits)
    ELSE BDivSmall(a, 2^n).q

RECURSIVE IntBitLen(_)
IntBitLen(n) == IF n = 0 THEN 0 ELSE 1 + IntBitLen(n \div 2)

BBitLen(a) ==
    IF Len(a) = 0 THEN 0 ELSE LimbBits * (Len(a) - 1) + IntBitLen(a[Len(a)])

BIsOdd(a) == BLow(a) % 2 = 1

\* Quotient bits of r / d below the binary point, n of them, for r < d:
\* q is the quotient so far, r the running remainder.  (The two length
\* tests are never true; they make TLC compute q and r at every step.)
RECURSIVE BDivBits(_, _, _, _)
BDivBits(r, d, n, q) ==
    IF n = 0 \/ Len(q) < 0 \/ Len(r) < 0 THEN [q |-> q, r |-> r]
    ELSE LET r2 == BAdd(r, r)
             ge == BCmp(r2, d) >= 0
         IN  BDivBits(IF ge THEN BSub(r2, d) ELSE r2, d, n - 1,
                      BAddC(q, q, IF ge THEN 1 ELSE 0))

\* The decimal digits of a ("" for zero).
RECURSIVE BDecStr(_)
BDecStr(a) ==
    IF Len(a) = 0 THEN ""
    ELSE LET d == BDivSmall(a, 10)
         IN  BDecStr(d.q) \o CharAt("0123456789", d.r + 1)

(***************************************************************************)
(* Python float: IEEE-754 binary64, round to nearest, ties to even.  A     *)
(* float is sign * mant * 2^exp with mant = <<>> (zero, exp 0) or          *)
(* 2^52 <= mant < 2^53, so equal floats are equal records.  The values of  *)
(* the model stay far from the overflow and subnormal ranges.              *)
(***************************************************************************)
MantBits == 53

FZero(sign) == [sign |-> sign, mant |-> <<>>, exp |-> 0]

FIsZero(x) == Len(x.mant) = 0

\* x == y of Python: -0.0 == 0.0.
FEq(x, y) == IF FIsZero(x) THEN FIsZero(y) ELSE x = y

\* a \div 2^sh with the comparison (-1, 0, 1) of the part cut off against
\* one half of 2^sh, for sh > 0.
BCutCmp(a, sh, q) ==
    [q |-> q, c |-> BCmp(BSub(a, BShl(q, sh)), BShl(<<1>>, sh - 1))]

BDivPow2(a, sh) == BCutCmp(a, sh, BShr(a, sh))

\* The mantissa q1 of at most MantBits + 1 bits, normalized.
FRoundUp(sign, e, q1) ==
    IF BBitLen(q1) > MantBits
    THEN [sign |-> sign, mant |-> BShr(q1, 1), exp |-> e + 1]
    ELSE [sign |-> sign, mant |-> q1, exp |-> e]

\* Round to nearest, ties to even; sticky says that more was cut off below.
FRoundCut(sign, e, sticky, cut) ==
    FRoundUp(sign, e,
             IF cut.c = 1 \/ (cut.c = 0 /\ (sticky \/ BIsOdd(cut.q)))
             THEN BAdd(cut.q, <<1>>) ELSE cut.q)

FRoundAt(sign, n, e, sticky, bl) ==
    IF bl <= MantBits
    THEN [sign |-> sign, mant |-> BShl(n, MantBits - bl),
          exp |-> e - (MantBits - bl)]
    ELSE FRoundCut(sign, e + (bl - MantBits), sticky,
                   BDivPow2(n, bl - MantBits))

\* The float nearest to sign * n * 2^e (n > 0); with sticky, to a value just
\* above n * 2^e, and then n carries at least two bits more than a mantissa.
FRound(sign, n, e, sticky) == FRoundAt(sign, n, e, sticky, BBitLen(n))

FNeg(x) == [x EXCEPT !.sign = -x.sign]

\* x + y for mantissas a and b aligned at exponent e, c comparing a with b.
FAddAligned(xsign, ysign, a, b, e, c) ==
    IF xsign # ysign /\ c = 0 THEN FZero(1)
    ELSE FRound(IF xsign = ysign \/ c = 1 THEN xsign ELSE ysign,
                IF xsign = ysign THEN BAdd(a, b)
                ELSE IF c = 1 THEN BSub(a, b) ELSE BSub(b, a),
                e, FALSE)

FAddAt(x, y, a, b, e) == FAddAligned(x.sign, y.sign, a, b, e, BCmp(a, b))

FAddExp(x, y, e) ==
    FAddAt(x, y, BShl(x.mant, x.exp - e), BShl(y.mant, y.exp - e), e)

\* x + y
FAdd(x, y) ==
    IF FIsZero(x) /\ FIsZero(y)
    THEN FZero(IF x.sign = -1 /\ y.sign = -1 THEN -1 ELSE 1)
    ELSE IF FIsZero(x) THEN y
    ELSE IF FIsZero(y) THEN x
    ELSE FAddExp(x, y, IF x.exp < y.exp THEN x.exp ELSE y.exp)

\* x - y
FSub(x, y) == FAdd(x, FNeg(y))

\* x * y
FMul(x, y) ==
    IF FIsZero(x) \/ FIsZero(y) THEN FZero(x.sign * y.sign)
    ELSE FRound(x.sign * y.sign, BMul(x.mant, y.mant), x.exp + y.exp, FALSE)

DivBits == 56

FDivRound(sign, e, d) == FRound(sign, d.q, e, Len(d.r) > 0)

FDivAt(x, y, ge) ==
    FDivRound(x.sign * y.sign, x.exp - y.exp - DivBits,
              BDivBits(IF ge THEN BSub(x.mant, y.mant) ELSE x.mant,
                       y.mant, DivBits, IF ge THEN <<1>> ELSE <<>>))

\* x / y for y # 0 (Python raises ZeroDivisionError for y == 0).
FDiv(x, y) ==
    IF FIsZero(x) THEN FZero(x.sign * y.sign)
    ELSE FDivAt(x, y, BCmp(x.mant, y.mant) >= 0)

\* a * 10^nd
RECURSIVE BMulPow10(_, _)
BMulPow10(a, nd) ==
    IF nd = 0 THEN a ELSE BMulPow10(BMulSmall(a, 10), nd - 1)

\* a \div 10^nd, and whether anything was cut off.
RECURSIVE BDivPow10(_, _, _)
BDivPow10(a, nd, cut) ==
    IF nd = 0 THEN [q |-> a, cut |-> cut]
    ELSE LET d == BDivSmall(a, 10)
         IN  BDivPow10(d.q, nd - 1, cut \/ d.r # 0)

DecBits == 80

FDecRound(sign, d) == FRound(sign, d.q, -DecBits, d.cut)

\* The float nearest to sign * k / 10^nd: float(Decimal), and the string to
\* float conversion that ends round(x, nd).
FFromDecimal(sign, k, nd) ==
    IF Len(k) = 0 THEN FZero(sign)
    ELSE FDecRound(sign, BDivPow10(BShl(k, DecBits), nd, FALSE))

RoundHalfEven(cut) ==
    IF cut.c = 1 \/ (cut.c = 0 /\ BIsOdd(cut.q)) THEN BAdd(cut.q, <<1>>)
    ELSE cut.q

\* The integer K with K / 10^nd the decimal nearest to |x|, ties to even:
\* the digits round(x, nd) takes from the exact binary value of x.
RoundedDigits(x, nd) ==
    IF FIsZero(x) THEN <<>>
    ELSE IF x.exp >= 0 THEN BShl(BMulPow10(x.mant, nd), x.exp)
    ELSE RoundHalfEven(BDivPow2(BMulPow10(x.mant, nd), -x.exp))

\* round(x, nd)
PyRound(x, nd) == FFromDecimal(x.sign, RoundedDigits(x, nd), nd)

RECURSIVE Zeros(_)
Zeros(n) == IF n <= 0 THEN "" ELSE "0" \o Zeros(n - 1)

RECURSIVE StripZeros(_)
StripZeros(s) ==
    IF Len(s) > 0 /\ CharAt(s, Len(s)) = "0"
    THEN StripZeros(SubSeq(s, 1, Len(s) - 1)) ELSE s

\* K / 10^nd in exponent form, for K below 10^(nd - 4): d[.ddd]e-XX
ExponentForm(lead, exponent) ==
    SubSeq(lead, 1, 1)
        \o (IF Len(lead) > 1 THEN "." \o SubSeq(lead, 2, Len(lead)) ELSE "")
        \o "e-" \o (IF exponent < 10 THEN "0" ELSE "")
        \o BDecStr(BFromInt(exponent))

\* K / 10^nd in positional form, with at least one digit after the point.
PositionalForm(padded, nd) ==
    SubSeq(padded, 1, Len(padded) - nd) \o "."
        \o (IF Len(StripZeros(SubSeq(padded, Len(padded) - nd + 1, Len(padded)))) = 0
            THEN "0"
            ELSE StripZeros(SubSeq(padded, Len(padded) - nd + 1, Len(padded))))

\* repr of the float nearest to sign * K / 10^nd, ds the digits of K: the
\* shortest decimal that reads back as that float, which is K / 10^nd itself
\* while it has at most 15 significant digits; below 1e-04 repr turns to
\* exponent form.
FormatDigits(sign, ds, nd) ==
    (IF sign = -1 THEN "-" ELSE "")
        \o (IF Len(ds) = 0 THEN "0.0"
            ELSE IF Len(ds) <= nd - 4
            THEN ExponentForm(StripZeros(ds), nd + 1 - Len(ds))
            ELSE PositionalForm(Zeros(nd + 1 - Len(ds)) \o ds, nd))

\* str(round(x, nd))
StrRound(x, nd) == FormatDigits(x.sign, BDecStr(RoundedDigits(x, nd)), nd)

(***************************************************************************)
(* What the data source returns.  A scalar is None (SQL NULL) or a decimal *)
(* sign * k / 10^nd; float(value) is the float nearest to it.              *)
(***************************************************************************)
None == [none |-> TRUE]

Dec(sign, k, nd) == [sign |-> sign, k |-> k, nd |-> nd]

\* float(value) for a value that is not None.
PyFloat(value) == FFromDecimal(value.sign, BFromInt(value.k), value.nd)

EmptyDict == [key \in {} |-> 0]

(***************************************************************************)
(* _get_table_metrics_wrapper: the labels of the batched statistics query. *)
(***************************************************************************)
StatKinds ==
    {"mean", "stddev", "quartile25", "quartile50", "quartile75", "quartile100"}

\* f"{column}_{kind}"
Label(column, kind) == column \o "_" \o kind

\* A planner that leaves the stddev out: the key sets of C9 are sensitive to
\* the labels planned.
WrapperWithoutStddev(numeric_columns) ==
    {Label(column, kind) : column \in numeric_columns,
                           kind \in StatKinds \ {"stddev"}}

_get_table_metrics_wrapper(numeric_columns) ==
    {Label(column, kind) : column \in numeric_columns, kind \in StatKinds}

(***************************************************************************)
(* get_table_metrics.  stat is the outcome of executing the statistics     *)
(* statement ([ok |-> FALSE] when it raises, else the row as a function    *)
(* from labels to scalars), count that of the row-count statement.  The    *)
(* result is [raised |-> "", metrics, original_metrics], or [raised |->    *)
(* <exception>] when a line outside the two try blocks raises.             *)
(***************************************************************************)
Raised(exc) == [raised |-> exc]

\* Lines 73-80: the row, or {} on failure, with every value rounded.
RoundedRow(stat) ==
    LET agg_result == IF stat.ok THEN stat.row ELSE EmptyDict
    IN  [key \in DOMAIN agg_result |-> PyRound(PyFloat(agg_result[key]), 2)]

\* Lines 82-89: column -> {quartile -> value} for the quartile25/75 keys.
QuartileMap(agg_result) ==
    LET qkeys == {key \in DOMAIN agg_result :
                     EndsWith(key, "quartile25") \/ EndsWith(key, "quartile75")}
        columns == {RPartition(key, "_").head : key \in qkeys}
        KeysOf(column) == {key \in qkeys : RPartition(key, "_").head = column}
    IN  [column \in columns |->
            [quartile \in {RPartition(key, "_").tail : key \in KeysOf(column)} |->
                agg_result[CHOOSE key \in KeysOf(column) :
                               RPartition(key, "_").tail = quartile]]]

\* Line 93: quartile_data["quartile75"] - quartile_data["quartile25"]
IQRValue(quartile_data) ==
    FSub(quartile_data["quartile75"], quartile_data["quartile25"])

\* Lines 92-93: agg_result with the "{column}_IQR" entries set.
WithIQR(agg_result, quartile_map) ==
    LET iqr_keys == {Label(column, "IQR") : column \in DOMAIN quartile_map}
    IN  [key \in (DOMAIN agg_result) \cup iqr_keys |->
            IF key \in iqr_keys
            THEN IQRValue(quartile_map[CHOOSE column \in DOMAIN quartile_map :
                                           Label(column, "IQR") = key])
            ELSE agg_result[key]]

\* Lines 102-110: {"row_count": n, agg: {column: value}}.
FormattedMetrics(agg_result, row_count) ==
    LET aggs == {RPartition(key, "_").tail : key \in DOMAIN agg_result}
        KeysOf(agg) == {key \in DOMAIN agg_result : RPartition(key, "_").tail = agg}
    IN  [name \in {"row_count"} \cup aggs |->
            IF name \in aggs
            THEN [column \in {RPartition(key, "_").head : key \in KeysOf(name)} |->
                     agg_result[CHOOSE key \in KeysOf(name) :
                                    RPartition(key, "_").head = column]]
            ELSE row_count]

\* Lines 102-112.
MetricsResult(agg_result, row_count) ==
    [raised |-> "",
     metrics |-> FormattedMetrics(agg_result, row_count),
     original_metrics |-> agg_result]

\* Lines 92-100: quartile_data["quartile75"] raises KeyError when a column
\* has one quartile only.
WithQuartiles(rounded, quartile_map, count) ==
    IF \E column \in DOMAIN quartile_map :
           DOMAIN quartile_map[column] # {"quartile25", "quartile75"}
    THEN Raised("KeyError")
    ELSE MetricsResult(WithIQR(rounded, quartile_map),
                       IF count.ok THEN count.n ELSE 0)

NormalizeRow(rounded, count) ==
    WithQuartiles(rounded, QuartileMap(rounded), count)

\* float(None) raises TypeError on line 79, outside the try.
get_table_metrics(stat, count) ==
    IF stat.ok /\ \E key \in DOMAIN stat.row : stat.row[key] = None
    THEN Raised("TypeError")
    ELSE NormalizeRow(RoundedRow(stat), count)

(***************************************************************************)
(* _get_all_metrics_diff                                                   *)
(***************************************************************************)
Hundred == FFromDecimal(1, BFromInt(100), 0)

\* A percentage of the second value: the sentinel of C5 is sensitive to the
\* denominator.
PercentOfSecond(table_1_value, table_2_value) ==
    IF FIsZero(table_2_value) THEN "N/A"
    ELSE StrRound(FDiv(FMul(FSub(table_1_value, table_2_value), Hundred),
                       table_2_value), 5) \o "%"

\* Lines 355-366.
PercentStr(table_1_value, table_2_value) ==
    IF FIsZero(table_1_value) THEN "N/A"
    ELSE StrRound(FDiv(FMul(FSub(table_1_value, table_2_value), Hundred),
                       table_1_value), 5) \o "%"

\* Lines 368-369.
RawStr(table_1_value, table_2_value) ==
    StrRound(FSub(table_1_value, table_2_value), 5)

DiffValue(table_1_value, table_2_value) ==
    [raw |-> RawStr(table_1_value, table_2_value),
     percent |-> PercentStr(table_1_value, table_2_value)]

\* Lines 376-391: the entries of one group, keyed by column_name.
DiffGroup(m1_agg, m2_agg, agg_operation) ==
    LET keys == {key \in DOMAIN m1_agg :
                    RPartition(key, "_").tail = agg_operation}
    IN  [column_name \in {RPartition(key, "_").head : key \in keys} |->
            LET key == CHOOSE k \in keys : RPartition(k, "_").head = column_name
            IN  DiffValue(m1_agg[key], m2_agg[key])]

DiffKinds ==
    {"mean", "stddev", "quartile25", "quartile50", "quartile75", "quartile100",
     "IQR"}

\* Lines 339-349 and 378-391: the groups under their names.
DiffResult(groups) ==
    [raised |-> "",
     mean_diff |-> groups["mean"],
     stddev_diff |-> groups["stddev"],
     quartiles_diff |->
         [q \in {"25", "50", "75", "100", "IQR"} |->
             groups[IF q = "IQR" THEN q ELSE "quartile" \o q]]]

\* table_2_agg_metrics[key] on line 353 raises KeyError for a key of table_1
\* that table_2 lacks.
_get_all_metrics_diff(table_1_agg_metrics, table_2_agg_metrics) ==
    IF \E key \in DOMAIN table_1_agg_metrics :
           key \notin DOMAIN table_2_agg_metrics
    THEN Raised("KeyError")
    ELSE DiffResult([op \in DiffKinds |->
                        DiffGroup(table_1_agg_metrics, table_2_agg_metrics, op)])

(***************************************************************************)
(* The inputs the environment supplies: reflected schemas and query        *)
(* results.                                                                *)
(***************************************************************************)
MaxCols == 2
MaxRows == 2
MaxTenths == 3
MaxUnits == 10

ColNames == {"x", "X", "x_mean"}

ColIndex(column) == CASE column = "x" -> 0 [] column = "X" -> 1 [] OTHER -> 2

ColSets == {S \in SUBSET ColNames : Cardinality(S) <= MaxCols}

\* The column mappings of at most MaxCols columns with types among `types`.
ColMaps(types) == UNION {[S -> types] : S \in ColSets}

\* str(meta.type) of reflected columns.
ColumnTypeStrings ==
    {"INTEGER", "integer", "VARCHAR(10)", "VARCHAR(50)", "TEXT", "FLOAT"}

RequestTypeStrings == {"INTEGER", "TEXT"}

\* Base types as get_columns_data records them for same-type columns.
BaseTypeStrings ==
    {"INTEGER", "Integer[]", "FLOAT", "float8", "DOUBLE PRECISION",
     "DOUBLE PRECISION[]", "PRECISION", "VARCHAR", "character varying",
     "TEXT", "FLOAT TEXT", "BOOLEAN", "NUMERIC", "BIGINT"}

\* Quartile draws: quartile25 = a/10 and quartile75 = b/10 for the first
\* column, shifted by whole numbers for the others.
QuartileDraws == {d \in (0..MaxTenths) \X (0..MaxTenths) : d[1] <= d[2]}

NoDraw == <<0, 0>>

\* The scalar the data source returns for (column, kind) under draw d, in
\* thousandths.
RawStat(column, kind, d) ==
    LET i == ColIndex(column)
    IN  CASE kind = "quartile25" -> Dec(1, d[1] * 100 + i * 1000, 3)
          [] kind = "quartile50" -> Dec(1, (d[1] + d[2]) * 50 + i * 1500, 3)
          [] kind = "quartile75" -> Dec(1, d[2] * 100 + i * 2000, 3)
          [] kind = "quartile100" -> Dec(1, d[2] * 100 + 5 + i * 3000, 3)
          [] kind = "mean" -> Dec(IF d[1] = 0 /\ d[2] > 0 THEN -1 ELSE 1,
                                  (d[1] + d[2]) * 50 + i * 1000, 3)
          [] kind = "stddev" -> Dec(1, (d[2] - d[1]) * 125 + i, 3)
          [] OTHER -> Dec(1, i, 0)

\* Kinds a label may carry: the planner's, and one it never plans.
LabelKinds == StatKinds \cup {"count"}

\* The row of a statistics query: one value per label.
StatRow(labels, d) ==
    [key \in labels |->
        LET p == CHOOSE p \in ColNames \X LabelKinds : Label(p[1], p[2]) = key
        IN  RawStat(p[1], p[2], d)]

\* What a call to the data source came to: ok is FALSE when it raised (or
\* returned None or False); row is the row of a statistics query, drawn as
\* `draw`; n the count of a row-count query.
Outcome(ok, row, n, draw) == [ok |-> ok, row |-> row, n |-> n, draw |-> draw]

Failed == Outcome(FALSE, EmptyDict, 0, NoDraw)

Passed == Outcome(TRUE, EmptyDict, 0, NoDraw)

\* SQL NULL for every aggregate: the table has no rows.
NullRow(labels) == Outcome(TRUE, [key \in labels |-> None], 0, NoDraw)

HasNull(stat) == \E key \in DOMAIN stat.row : stat.row[key] = None

\* The outcomes of the statistics query: it raises, it returns NULL for every
\* aggregate, or it returns a row of values.
StatOutcomes(labels, draws) ==
    {Failed} \cup {NullRow(labels)}
        \cup {Outcome(TRUE, StatRow(labels, d), 0, d) : d \in draws}

\* The outcomes of the row-count query.
CountOutcomes == {Failed} \cup {Outcome(TRUE, EmptyDict, k, NoDraw) : k \in 0..MaxRows}

(***************************************************************************)
(* get_table_diff, one action per step between its awaits.  `calls` lists  *)
(* the token check and the calls made to the data source, in order, each   *)
(* with its outcome; `response` is what the request ends with: an          *)
(* {"error": ...} body, the report, or an exception that leaves the        *)
(* handler.                                                                *)
(***************************************************************************)
NoValue == [unset |-> TRUE]

Pending == [kind |-> "pending"]

ErrorResponse(status_code, message) ==
    [kind |-> "error", status |-> status_code, body |-> [error |-> message]]

Unhandled(exc) == [kind |-> "raised", exc |-> exc]

Call(name, outcome) == [call |-> name, result |-> outcome]

Init ==
    /\ pc = "auth"
    /\ t1cols = NoValue /\ t2cols = NoValue
    /\ columns_data = NoValue /\ column_types = NoValue
    /\ m1 = NoValue /\ m2 = NoValue /\ metrics_diff = NoValue
    /\ response = Pending
    /\ calls = <<>>

\* A check that records the error and carries on: the fail-fast order of C7
\* is sensitive to the early return.
CheckContinues(here, next, status_code, message) ==
    /\ pc = here
    /\ \E passed \in {Passed, Failed} :
          /\ calls' = Append(calls, Call(here, passed))
          /\ pc' = next
          /\ IF passed.ok THEN UNCHANGED response
             ELSE response' = ErrorResponse(status_code, message)
    /\ UNCHANGED <<t1cols, t2cols, columns_data, column_types, m1, m2,
                   metrics_diff>>

\* A check of lines 403-428: on failure the handler returns the error.
Check(here, next, status_code, message) ==
    /\ pc = here
    /\ \E passed \in {Passed, Failed} :
          /\ calls' = Append(calls, Call(here, passed))
          /\ IF passed.ok
             THEN pc' = next /\ UNCHANGED response
             ELSE pc' = "done" /\ response' = ErrorResponse(status_code, message)
    /\ UNCHANGED <<t1cols, t2cols, columns_data, column_types, m1, m2,
                   metrics_diff>>

\* Lines 403-405.
Auth == Check("auth", "connect_1", 401, "Authentication failure")

ConnectMessage == "Could not connect to DB with the provided connection string."

\* Lines 412-420: connect_database returns an engine or None.
Connect1 == Check("connect_1", "connect_2", 400, ConnectMessage)
Connect2 == Check("connect_2", "exists_1", 400, ConnectMessage)

\* Lines 422-428: table_name_exists; the message of the code carries the
\* table name as well.
Exists1 == Check("exists_1", "exists_2", 400, "Table name does not exist")
Exists2 == Check("exists_2", "columns_1", 400, "Table name does not exist")

\* Lines 430-431: get_table_columns reflects the schema.
Columns1 ==
    /\ pc = "columns_1"
    /\ calls' = Append(calls, Call("columns_1", Passed))
    /\ t1cols' \in ColMaps(RequestTypeStrings)
    /\ pc' = "columns_2"
    /\ UNCHANGED <<t2cols, columns_data, column_types, m1, m2, metrics_diff,
                   response>>

Columns2 ==
    /\ pc = "columns_2"
    /\ calls' = Append(calls, Call("columns_2", Passed))
    /\ t2cols' \in ColMaps(RequestTypeStrings)
    /\ pc' = "reconcile"
    /\ UNCHANGED <<t1cols, columns_data, column_types, m1, m2, metrics_diff,
                   response>>

\* columns_data.pop("common_columns_same_type", None)
PopSameType(data) ==
    [name \in (DOMAIN data) \ {"common_columns_same_type"} |-> data[name]]

Reconciled(data) ==
    /\ column_types' = _get_numeric_text_cols(data.common_columns_same_type)
    /\ columns_data' = PopSameType(data)

\* Lines 434-447.
Reconcile ==
    /\ pc = "reconcile"
    /\ Reconciled(get_columns_data(t1cols, t2cols))
    /\ pc' = "metrics_1"
    /\ UNCHANGED <<t1cols, t2cols, m1, m2, metrics_diff, response, calls>>

\* The calls get_table_metrics makes: the row count is not queried when a
\* line before it raises.
MetricsCalls(table, stat, count, result) ==
    <<Call("statistics_" \o table, stat)>>
        \o (IF result.raised = "" THEN <<Call("row_count_" \o table, count)>>
            ELSE <<>>)

\* get_table_metrics for one table and what the caller does with the result.
MetricsStep(here, next, table, stat, count, result) ==
    /\ pc = here
    /\ calls' = calls \o MetricsCalls(table, stat, count, result)
    /\ IF table = "1" THEN m1' = result /\ UNCHANGED m2
       ELSE m2' = result /\ UNCHANGED m1
    /\ IF result.raised = ""
       THEN pc' = next /\ UNCHANGED response
       ELSE pc' = "done" /\ response' = Unhandled(result.raised)
    /\ UNCHANGED <<t1cols, t2cols, columns_data, column_types, metrics_diff>>

RequestDraws == {<<1, MaxTenths>>}

\* Lines 449-463: _get_table_metrics_wrapper plans the statistics of the
\* numeric columns of the reconciliation, get_table_metrics runs them.
RequestMetrics(here, next, table) ==
    /\ pc = here
    /\ \E stat \in StatOutcomes(
                     _get_table_metrics_wrapper(column_types.numeric_columns),
                     RequestDraws),
          count \in CountOutcomes :
           MetricsStep(here, next, table, stat, count,
                       get_table_metrics(stat, count))

Metrics1 == RequestMetrics("metrics_1", "metrics_2", "1")
Metrics2 == RequestMetrics("metrics_2", "diff", "2")

\* Lines 444-478: the report.
FinalOutput(data, t1, t2, diff) ==
    [columns_data |-> data,
     rows_data |-> [table_1 |-> [metrics |-> t1.metrics],
                    table_2 |-> [metrics |-> t2.metrics]],
     metrics_diff |->
         [mean_diff |-> diff.mean_diff,
          stddev_diff |-> diff.stddev_diff,
          quartiles_diff |-> diff.quartiles_diff,
          row_count_diff |->
              t1.metrics["row_count"] - t2.metrics["row_count"]]]

RequestDiff(diff) ==
    /\ metrics_diff' = diff
    /\ response' =
          IF diff.raised = ""
          THEN [kind |-> "report", status |-> 200,
                body |-> FinalOutput(columns_data, m1, m2, diff)]
          ELSE Unhandled(diff.raised)
    /\ pc' = "done"
    /\ UNCHANGED <<t1cols, t2cols, columns_data, column_types, m1, m2, calls>>

\* Lines 465-478.
Diff ==
    /\ pc = "diff"
    /\ RequestDiff(_get_all_metrics_diff(m1.original_metrics,
                                         m2.original_metrics))

Next ==
    \/ Auth \/ Connect1 \/ Connect2 \/ Exists1 \/ Exists2
    \/ Columns1 \/ Columns2 \/ Reconcile \/ Metrics1 \/ Metrics2 \/ Diff

Spec == Init /\ [][Next]_vars

(***************************************************************************)
(* get_columns_data on any two column mappings.                            *)
(***************************************************************************)
Idle ==
    /\ m1 = NoValue /\ m2 = NoValue /\ metrics_diff = NoValue
    /\ response = Pending /\ calls = <<>>

InitColumns ==
    /\ pc = "get_columns_data"
    /\ t1cols \in ColMaps(ColumnTypeStrings)
    /\ t2cols \in ColMaps(ColumnTypeStrings)
    /\ columns_data = NoValue /\ column_types = NoValue
    /\ Idle

ColumnsData ==
    /\ pc = "get_columns_data"
    /\ columns_data' = get_columns_data(t1cols, t2cols)
    /\ pc' = "done"
    /\ UNCHANGED <<t1cols, t2cols, column_types, m1, m2, metrics_diff,
                   response, calls>>

NextColumns == ColumnsData

SpecColumns == InitColumns /\ [][NextColumns]_vars

(***************************************************************************)
(* _get_numeric_text_cols on any list of same-type columns.                *)
(***************************************************************************)
InitClassify ==
    /\ pc = "_get_numeric_text_cols"
    /\ t1cols = NoValue /\ t2cols = NoValue
    /\ \E same_type \in ColMaps(BaseTypeStrings) :
          columns_data = [common_columns_same_type |-> same_type]
    /\ column_types = NoValue
    /\ Idle

Classify ==
    /\ pc = "_get_numeric_text_cols"
    /\ column_types' =
          _get_numeric_text_cols(columns_data.common_columns_same_type)
    /\ pc' = "done"
    /\ UNCHANGED <<t1cols, t2cols, columns_data, m1, m2, metrics_diff,
                   response, calls>>

NextClassify == Classify

SpecClassify == InitClassify /\ [][NextClassify]_vars

(***************************************************************************)
(* get_table_metrics on the rows of two tables, then _get_all_metrics_diff *)
(* on the two flat maps.  The statement's labels are those of the planner, *)
(* those with a kind the diff does not recognize added, or the mean and    *)
(* stddev labels alone.                                                    *)
(***************************************************************************)
KindSets == {StatKinds, LabelKinds, {"mean", "stddev"}}

Labels(columns, kinds) ==
    {Label(column, kind) : column \in columns, kind \in kinds}

\* Column sets of the statement: a plain name, a name that is a key of
\* another column, names that differ in case.
StatsColumnSets == {{"x"}, {"x", "x_mean"}, {"X", "x_mean"}}

InitStats ==
    /\ pc = "metrics_1"
    /\ t1cols = NoValue /\ t2cols = NoValue /\ columns_data = NoValue
    /\ \E columns \in StatsColumnSets :
          column_types = [numeric_columns |-> columns, text_columns |-> {}]
    /\ Idle

StatsStep(here, next, table, stat, count) ==
    MetricsStep(here, next, table, stat, count, get_table_metrics(stat, count))

StatsOutcome(labels, d) == Outcome(TRUE, StatRow(labels, d), 0, d)

StatsCount == Outcome(TRUE, EmptyDict, MaxRows, NoDraw)

StatsMetrics1 ==
    /\ pc = "metrics_1"
    /\ \E kinds \in KindSets, d \in QuartileDraws :
          StatsStep("metrics_1", "metrics_2", "1",
                    StatsOutcome(Labels(column_types.numeric_columns, kinds), d),
                    StatsCount)

\* The statement run on table 2 carries the labels of the one run on table 1.
StatsMetrics2 ==
    /\ pc = "metrics_2"
    /\ \E d \in {q \in QuartileDraws : q[1] = 0} :
          StatsStep("metrics_2", "diff", "2",
                    StatsOutcome(DOMAIN calls[1].result.row, d), StatsCount)

DiffStep(diff) ==
    /\ metrics_diff' = diff
    /\ pc' = "done"
    /\ UNCHANGED <<t1cols, t2cols, columns_data, column_types, m1, m2,
                   response, calls>>

StatsDiff ==
    /\ pc = "diff"
    /\ DiffStep(_get_all_metrics_diff(m1.original_metrics, m2.original_metrics))

NextStats == StatsMetrics1 \/ StatsMetrics2 \/ StatsDiff

SpecStats == InitStats /\ [][NextStats]_vars

(***************************************************************************)
(* _get_all_metrics_diff on two flat maps of one key, over a grid of       *)
(* values: the whole numbers up to MaxUnits, of either sign (-0.0 too).    *)
(***************************************************************************)
GridValues == {PyFloat(Dec(sign, u, 0)) : sign \in {1, -1}, u \in 0..MaxUnits}

DiffKeys == {"x_mean", "x_mean_stddev", "X_IQR"}

FlatMap(key, value) ==
    [raised |-> "", original_metrics |-> [k \in {key} |-> value]]

InitDiff ==
    /\ pc = "diff"
    /\ t1cols = NoValue /\ t2cols = NoValue
    /\ columns_data = NoValue /\ column_types = NoValue
    /\ \E key \in DiffKeys, v1 \in GridValues, v2 \in GridValues :
          m1 = FlatMap(key, v1) /\ m2 = FlatMap(key, v2)
    /\ metrics_diff = NoValue
    /\ response = Pending /\ calls = <<>>

NextDiff == StatsDiff

SpecDiff == InitDiff /\ [][NextDiff]_vars

(***************************************************************************)
(* Properties of get_table_diff (specification Spec).                      *)
(***************************************************************************)
Called(name) == \E i \in 1..Len(calls) : calls[i].call = name

ResultOf(name) ==
    calls[CHOOSE i \in 1..Len(calls) : calls[i].call = name].result

StatisticsCalls == {"statistics_1", "statistics_2"}

\* No statistics query so far returned NULL aggregates.
NoNullRow ==
    \A i \in 1..Len(calls) :
        calls[i].call \in StatisticsCalls => ~HasNull(calls[i].result)

\* Table `table` degraded as the failures of its queries require.
Degraded(table, m) ==
    /\ ~ResultOf("statistics_" \o table).ok =>
          /\ m.original_metrics = EmptyDict
          /\ DOMAIN m.metrics = {"row_count"}
    /\ ~ResultOf("row_count_" \o table).ok => m.metrics["row_count"] = 0

\* C1: for every combination of success and failure of the statistics query
\* and of the row-count query on table_1 and table_2, the failing table
\* degrades to an empty statistic map and/or row_count = 0, and the request
\* completes with the full report instead of raising.  (Rows with NULL
\* aggregates are left to C2.)
C1_FailuresDegrade ==
    (pc = "done" /\ Called("statistics_1") /\ NoNullRow) =>
        /\ response.kind = "report"
        /\ DOMAIN response.body = {"columns_data", "rows_data", "metrics_diff"}
        /\ "row_count_diff" \in DOMAIN response.body.metrics_diff
        /\ Degraded("1", m1)
        /\ Degraded("2", m2)

\* C2: when a statistics query succeeds but returns NULL for the aggregates
\* of the numeric columns (the table is empty), get_table_metrics and
\* _get_all_metrics_diff complete and get_table_diff returns a report.
C2_NullAggregatesComplete ==
    (pc = "done" /\ \E i \in 1..Len(calls) :
                       /\ calls[i].call \in StatisticsCalls
                       /\ HasNull(calls[i].result)) =>
        response.kind = "report"

CheckOrder == <<"auth", "connect_1", "connect_2", "exists_1", "exists_2">>

CheckNames == {CheckOrder[i] : i \in 1..Len(CheckOrder)}

PlannedColumns ==
    {col \in (DOMAIN t1cols) \cap (DOMAIN t2cols) :
        /\ PartitionHead(t1cols[col], "(") = PartitionHead(t2cols[col], "(")
        /\ LET t == CaseFold(PartitionHead(t1cols[col], "("))
           IN  \/ Contains(t, "float") \/ Contains(t, "integer")
               \/ Contains(t, "double precision") /\ ~Contains(t, "[]")}

PlannedKeys ==
    {col \o "_" \o kind : col \in PlannedColumns,
                          kind \in StatKinds \cup {"IQR"}}

\* C9 as stated: whenever get_table_diff invokes _get_all_metrics_diff the
\* two original flat maps have identical key sets.
C9_SameKeySets ==
    pc = "diff" => DOMAIN m1.original_metrics = DOMAIN m2.original_metrics

\* C9, amended: whenever get_table_diff invokes _get_all_metrics_diff, the
\* original flat map of a table is empty when its statistics query failed
\* and otherwise holds, for each planned numeric column, the six labels and
\* the derived IQR; the two key sets are identical when both statistics
\* queries succeeded or both failed.
C9_KeySetsWhenBothAnswer ==
    pc = "diff" =>
        /\ \A table \in {"1", "2"} :
              DOMAIN (IF table = "1" THEN m1 ELSE m2).original_metrics =
                  IF ResultOf("statistics_" \o table).ok
                  THEN PlannedKeys ELSE {}
        /\ ResultOf("statistics_1").ok = ResultOf("statistics_2").ok =>
              DOMAIN m1.original_metrics = DOMAIN m2.original_metrics

\* Both statistics queries succeeded on a plan with numeric columns.
C9_Witness ==
    /\ pc = "diff"
    /\ ResultOf("statistics_1").ok /\ ResultOf("statistics_2").ok
    /\ PlannedColumns # {}
    /\ DOMAIN m1.original_metrics = PlannedKeys
    /\ DOMAIN m2.original_metrics = PlannedKeys

(***************************************************************************)
(* Properties of get_columns_data (specification SpecColumns).             *)
(***************************************************************************)
\* C3: for any two column mappings, common_columns and
\* table_1_uncommon_columns partition the column names of table_1, likewise
\* for table_2; common_columns is exactly the set of names present in both
\* mappings, matched exactly (case-sensitively); no input raises.
C3_Partition ==
    /\ pc = "get_columns_data" => ENABLED ColumnsData
    /\ pc = "done" =>
          /\ columns_data.common_columns \cup columns_data.table_1_uncommon_columns
                = DOMAIN t1cols
          /\ columns_data.common_columns \cap columns_data.table_1_uncommon_columns
                = {}
          /\ columns_data.common_columns \cup columns_data.table_2_uncommon_columns
                = DOMAIN t2cols
          /\ columns_data.common_columns \cap columns_data.table_2_uncommon_columns
                = {}
          /\ columns_data.common_columns = (DOMAIN t1cols) \cap (DOMAIN t2cols)

\* Names that differ in case only are not common.
C3_Witness ==
    /\ pc = "done"
    /\ DOMAIN t1cols = {"x", "x_mean"}
    /\ DOMAIN t2cols = {"X", "x_mean"}
    /\ columns_data.common_columns = {"x_mean"}
    /\ columns_data.table_1_uncommon_columns = {"x"}
    /\ columns_data.table_2_uncommon_columns = {"X"}

\* The base token of the specification: the parenthesized suffix stripped,
\* case-folded.
NormalizedBase(type_str) ==
    LET hits == {i \in 1..Len(type_str) : SubSeq(type_str, i, i) = "("}
    IN  CaseFold(IF hits = {} THEN type_str
                 ELSE SubSeq(type_str, 1,
                             (CHOOSE i \in hits : \A j \in hits : i <= j) - 1))

\* C4: a common column is in common_columns_same_type if and only if the
\* bases of its two type strings, parenthesized suffix stripped and
\* case-folded, are equal, and otherwise in common_columns_different_type;
\* every common column is in exactly one of the two lists; type strings
\* that differ only in the parameter or only in letter case are same-type.
C4_SameTypeIffBasesEqual ==
    pc = "done" =>
        LET same == DOMAIN columns_data.common_columns_same_type
            different == DOMAIN columns_data.common_columns_different_type
        IN  /\ same \cup different = columns_data.common_columns
            /\ same \cap different = {}
            /\ \A col \in columns_data.common_columns :
                  col \in same <=>
                      NormalizedBase(t1cols[col]) = NormalizedBase(t2cols[col])

(***************************************************************************)
(* Properties of _get_numeric_text_cols (specification SpecClassify).      *)
(***************************************************************************)
\* C8: a same-type column is Numeric iff its case-folded base type contains
\* "float" or "integer", or contains "double precision" and not "[]"; Text
\* iff it is not Numeric and contains "char" or "text"; otherwise in neither
\* set; the two sets are disjoint and depend on the type strings only.
C8_DiffModeClasses ==
    pc = "done" =>
        LET same_type == columns_data.common_columns_same_type
        IN  /\ column_types.numeric_columns \cap column_types.text_columns = {}
            /\ column_types.numeric_columns \cup column_types.text_columns
                  \subseteq DOMAIN same_type
            /\ \A col \in DOMAIN same_type :
                  LET t == CaseFold(same_type[col])
                      numeric == \/ Contains(t, "float")
                                 \/ Contains(t, "integer")
                                 \/ /\ Contains(t, "double precision")
                                    /\ ~Contains(t, "[]")
                      text == Contains(t, "char") \/ Contains(t, "text")
                  IN  /\ col \in column_types.numeric_columns <=> numeric
                      /\ col \in column_types.text_columns <=> (~numeric /\ text)
            /\ \A c, d \in DOMAIN same_type :
                  same_type[c] = same_type[d] =>
                      /\ c \in column_types.numeric_columns
                            <=> d \in column_types.numeric_columns
                      /\ c \in column_types.text_columns
                            <=> d \in column_types.text_columns

\* A type that names both classes is Numeric; an array of double precision
\* is in neither set.
C8_Witness ==
    /\ pc = "done"
    /\ \E c, d \in DOMAIN columns_data.common_columns_same_type :
          /\ columns_data.common_columns_same_type[c] = "FLOAT TEXT"
          /\ c \in column_types.numeric_columns
          /\ c \notin column_types.text_columns
          /\ columns_data.common_columns_same_type[d] = "DOUBLE PRECISION[]"
          /\ d \notin column_types.numeric_columns \cup column_types.text_columns

(***************************************************************************)
(* Properties of get_table_metrics and of the routing of                   *)
(* _get_all_metrics_diff (specification SpecStats).                        *)
(***************************************************************************)
\* The results get_table_metrics has returned so far, each with the outcome
\* of its statistics query.
TableResults ==
    (IF Called("statistics_1")
     THEN {[m |-> m1, stat |-> ResultOf("statistics_1")]} ELSE {})
        \cup (IF Called("statistics_2")
              THEN {[m |-> m2, stat |-> ResultOf("statistics_2")]} ELSE {})

\* C6: for every column with quartile25 and quartile75 in the statistics
\* result, get_table_metrics adds "{column}_IQR", equal to
\* round(quartile75 - quartile25, 2) of the rounded quartiles, to
\* original_metrics and to metrics["IQR"][column]; a column without
\* quartiles gets no IQR entry.
C6_IQRRounded ==
    \A r \in TableResults :
        /\ r.m.raised = ""
        /\ \A col \in ColNames :
              LET o == r.m.original_metrics
                  q25 == col \o "_quartile25"
                  q75 == col \o "_quartile75"
                  iqr == col \o "_IQR"
              IN  IF q25 \in DOMAIN o /\ q75 \in DOMAIN o
                  THEN /\ iqr \in DOMAIN o
                       /\ FEq(o[iqr], PyRound(FSub(o[q75], o[q25]), 2))
                       /\ "IQR" \in DOMAIN r.m.metrics
                       /\ col \in DOMAIN r.m.metrics["IQR"]
                       /\ r.m.metrics["IQR"][col] = o[iqr]
                  ELSE /\ iqr \notin DOMAIN o
                       /\ "IQR" \in DOMAIN r.m.metrics =>
                             col \notin DOMAIN r.m.metrics["IQR"]

\* The group of the diff that holds the entries of `kind`.
GroupOf(diff, kind) ==
    CASE kind = "mean" -> diff.mean_diff
      [] kind = "stddev" -> diff.stddev_diff
      [] kind = "quartile25" -> diff.quartiles_diff["25"]
      [] kind = "quartile50" -> diff.quartiles_diff["50"]
      [] kind = "quartile75" -> diff.quartiles_diff["75"]
      [] kind = "quartile100" -> diff.quartiles_diff["100"]
      [] kind = "IQR" -> diff.quartiles_diff["IQR"]

KeyPairs == ColNames \X (DiffKinds \cup {"count"})

\* C10: splitting "{column}_{kind}" on the last underscore recovers
\* (column, kind) for every column name, names with underscores or a kind
\* suffix included, and every kind; distinct pairs never collide;
\* get_table_metrics files the value of the pair under metrics[kind][column]
\* and _get_all_metrics_diff routes its entry into the group of the kind
\* under the full column name; keys of other kinds are dropped.
C10_KeyRoundTrip ==
    /\ \A p \in KeyPairs :
          /\ RPartition(p[1] \o "_" \o p[2], "_")
                = [head |-> p[1], sep |-> "_", tail |-> p[2]]
          /\ \A q \in KeyPairs :
                p[1] \o "_" \o p[2] = q[1] \o "_" \o q[2] => p = q
    /\ \A r \in TableResults :
          /\ r.m.raised = ""
          /\ \A p \in KeyPairs :
                LET key == p[1] \o "_" \o p[2]
                IN  /\ key \in DOMAIN r.stat.row =>
                          /\ key \in DOMAIN r.m.original_metrics
                          /\ r.m.original_metrics[key]
                                = PyRound(PyFloat(RawStat(p[1], p[2], r.stat.draw)), 2)
                    /\ key \in DOMAIN r.m.original_metrics =>
                          /\ p[2] \in DOMAIN r.m.metrics
                          /\ p[1] \in DOMAIN r.m.metrics[p[2]]
                          /\ r.m.metrics[p[2]][p[1]] = r.m.original_metrics[key]
          /\ \A kind \in (DOMAIN r.m.metrics) \ {"row_count"} :
                \A col \in DOMAIN r.m.metrics[kind] :
                    col \o "_" \o kind \in DOMAIN r.m.original_metrics
    /\ pc = "done" =>
          /\ metrics_diff.raised = ""
          /\ \A kind \in DiffKinds :
                /\ DOMAIN GroupOf(metrics_diff, kind)
                      = {col \in ColNames :
                            col \o "_" \o kind \in DOMAIN m1.original_metrics}
                /\ \A col \in DOMAIN GroupOf(metrics_diff, kind) :
                      GroupOf(metrics_diff, kind)[col]
                          = DiffValue(m1.original_metrics[col \o "_" \o kind],
                                      m2.original_metrics[col \o "_" \o kind])

\* A column named like a key of another column, with a kind that no group
\* takes in the statement.
C10_Witness ==
    /\ pc = "done"
    /\ {"x_mean", "x_mean_mean", "x_count"} \subseteq DOMAIN m1.original_metrics
    /\ DOMAIN metrics_diff.mean_diff = {"x", "x_mean"}
    /\ m1.metrics["mean"]["x_mean"] = m1.original_metrics["x_mean_mean"]

(***************************************************************************)
(* Properties of the entries of _get_all_metrics_diff (specification       *)
(* SpecDiff).  The expected strings are computed on whole numbers: the     *)
(* grid values are whole, and str() of a float prints the shortest         *)
(* decimal, which for a value of at most five decimals is that decimal.    *)
(***************************************************************************)
RECURSIVE NatStr(_)
NatStr(n) ==
    IF n < 10 THEN SubSeq("0123456789", n + 1, n + 1)
    ELSE NatStr(n \div 10) \o SubSeq("0123456789", (n % 10) + 1, (n % 10) + 1)

RECURSIVE StripTrailingZeros(_)
StripTrailingZeros(s) ==
    IF Len(s) > 1 /\ SubSeq(s, Len(s), Len(s)) = "0"
    THEN StripTrailingZeros(SubSeq(s, 1, Len(s) - 1))
    ELSE s

\* (-1)^neg * k / 10^5 in positional notation, as str() prints a float.
DecimalStr(neg, k) ==
    (IF neg THEN "-" ELSE "") \o NatStr(k \div 100000) \o "."
        \o StripTrailingZeros(SubSeq(NatStr(100000 + (k % 100000)), 2, 6))

Abs(n) == IF n < 0 THEN -n ELSE n

\* n / d rounded to a whole number, ties to even, for n >= 0 and d > 0.
RoundedQuotient(n, d) ==
    LET q == n \div d
        r == n % d
    IN  IF 2 * r > d \/ (2 * r = d /\ q % 2 = 1) THEN q + 1 ELSE q

\* The whole number a grid value stands for.
RECURSIVE LimbsValue(_)
LimbsValue(a) ==
    IF Len(a) = 0 THEN 0 ELSE Head(a) + LimbBase * LimbsValue(Tail(a))

WholeOf(v) ==
    IF Len(v.mant) = 0 THEN 0 ELSE v.sign * LimbsValue(BShr(v.mant, -v.exp))

\* The one key of the flat maps, its two values, and the entry made for it.
DiffKey == CHOOSE key \in DOMAIN m1.original_metrics : TRUE

DiffEntry ==
    CASE DiffKey = "x_mean" -> metrics_diff.mean_diff["x"]
      [] DiffKey = "x_mean_stddev" -> metrics_diff.stddev_diff["x_mean"]
      [] DiffKey = "X_IQR" -> metrics_diff.quartiles_diff["IQR"]["X"]

\* str(round(v1 - v2, 5)) for whole v1 = n1 and v2 = n2; the difference of
\* two zeros is -0.0 for (-0.0) - 0.0 alone.
ExpectedRaw(n1, n2, sign1, sign2) ==
    DecimalStr(n1 < n2 \/ (n1 = 0 /\ n2 = 0 /\ sign1 = -1 /\ sign2 = 1),
               Abs(n1 - n2) * 100000)

\* round((v1 - v2) * 100 / v1, 5) with "%" for whole v1 = n1 # 0, v2 = n2; a
\* zero quotient takes the sign of v1.
ExpectedPercent(n1, n2) ==
    DecimalStr(IF n1 = n2 THEN n1 < 0 ELSE (n1 < n2) # (n1 < 0),
               RoundedQuotient(Abs(n1 - n2) * 10000000, Abs(n1))) \o "%"

\* C5: for the key's values v1 and v2, percent is "N/A" if and only if
\* v1 == 0 and otherwise round((v1 - v2) * 100 / v1, 5) followed by "%"; raw
\* is round(v1 - v2, 5); no v1, v2 makes the computation raise, v1 = 0 and
\* negative values included; 10 and 8 give 2.0 and 20.0%, 0 and 5 give -5.0
\* and N/A.
C5_PercentAndRaw ==
    pc = "done" =>
        LET v1 == m1.original_metrics[DiffKey]
            v2 == m2.original_metrics[DiffKey]
            n1 == WholeOf(v1)
            n2 == WholeOf(v2)
        IN  /\ metrics_diff.raised = ""
            /\ DOMAIN DiffEntry = {"raw", "percent"}
            /\ DiffEntry.raw = ExpectedRaw(n1, n2, v1.sign, v2.sign)
            /\ DiffEntry.percent = "N/A" <=> n1 = 0
            /\ n1 # 0 => DiffEntry.percent = ExpectedPercent(n1, n2)
            /\ (n1 = 10 /\ n2 = 8) =>
                  DiffEntry = [raw |-> "2.0", percent |-> "20.0%"]
            /\ (n1 = 0 /\ n2 = 5) =>
                  DiffEntry = [raw |-> "-5.0", percent |-> "N/A"]

\* A zero first value against a positive second one.
C5_Witness ==
    /\ pc = "done"
    /\ DiffKey = "x_mean_stddev"
    /\ WholeOf(m1.original_metrics[DiffKey]) = 0
    /\ WholeOf(m2.original_metrics[DiffKey]) = 5
    /\ metrics_diff.stddev_diff["x_mean"] = [raw |-> "-5.0", percent |-> "N/A"]

====
